---- MODULE Spec2Model ----
(***************************************************************************)
(* Booking / payment workflow of alx_travel_app (listings/views.py), the   *)
(* notification tasks (listings/tasks.py) and the beat schedule            *)
(* (celery.py).                                                            *)
(*                                                                         *)
(* Spec        : the request handlers of BookingViewSet and the payment    *)
(*               views acting on the Booking and Payment tables; every     *)
(*               .delay() call appends a job to the broker queue.          *)
(* SpecJobs    : a worker executing the jobs of the queue, with the retry  *)
(*               policy of send_booking_confirmation_email.                *)
(* SpecCleanup : cleanup_old_bookings run against a table of bookings.     *)
(* The other specifications are introduced where they are defined.         *)
(* Time is an integer clock.  In Spec and SpecCleanup one unit is a day,   *)
(* in SpecJobs one unit is a second.                                       *)
(***************************************************************************)
EXTENDS Integers, Sequences, FiniteSets, TLC

VARIABLES
    bookings,       \* Booking table: id -> row
    payments,       \* Payment table: reference -> row
    nextBookingId,  \* next auto-increment id of the Booking table
    nextPaymentRef, \* next fresh payment reference (uuid4 never repeats)
    queue,          \* broker queue: jobs enqueued by .delay()/retry, in order
    now,            \* timezone.now()
    finished,       \* jobs that left the queue, with their final state
    last,           \* the request or job step that ran last, with its outcome
    beat,           \* celery beat: running or not, hour of the day, and when
                    \* it last sent each entry of the schedule
    inflight        \* requests being handled: each one's position in its
                    \* handler and the handler's local variables

vars == <<bookings, payments, nextBookingId, nextPaymentRef, queue, now,
          finished, last, beat, inflight>>

----------------------------------------------------------------------------
(* Bounds *)

\* Spec: rows of the Booking and Payment tables, jobs in the queue, clock
MaxBookings == 2
MaxPayments == 1
MaxQueue == 4
MaxNow == 1
\* SpecJobs: messages ever published, clock (seconds) and its step
MaxJobs == 2
MaxClock == 1200
SecondsPerTick == 100
\* SpecAsync: rows of the Booking and Payment tables, messages ever published
AsyncBookings == 1
AsyncPayments == 1
AsyncJobs == 3
\* SpecBeat: hours the clock runs, scheduled messages waiting in the queue
BeatHours == 30
BeatQueue == 2
\* SpecFrame: rows of the Booking and Payment tables, messages published
LiveDays == 32
LiveRequestDays == 1
LivePayments == 1

RetryStart == 23
RetryTicks == 9
RetryPayments == 2
RetryQueue == 2
RetryJobs == 2

RaceRequests == 3
RaceBookings == 2
RaceDays == 1

SearchRows == 2
SearchDays == 5

FrameBookings == 2
FramePayments == 2
FrameJobs == 2
\* SpecReminder: rows of the Booking table, days that pass
ReminderRows == 2
MaxReminderTicks == 1
\* SpecCleanup: rows of the Booking table, their age in days, days that pass
NumRows == 3
MaxUpdatedAt == 2
MaxCleanupTicks == 2

----------------------------------------------------------------------------
(* Users, listings and request inputs *)

Users == {"admin", "host", "guest"}

\* request.user.is_staff
IsStaff(u) == u = "admin"

\* request.user.email / booking.guest.email
Email(u) ==
    CASE u = "admin" -> "admin@example.com"
      [] u = "host"  -> "host@example.com"
      [] u = "guest" -> "guest@example.com"

\* booking.listing.host
ListingHost(l) == "host"

NoCN == ""
NoTime == -1
NoBooking == 0
NoUser == "-"

\* Bodies of POST /bookings/: <<1,3>> and <<2,4>> overlap, <<1,3>> and <<3,5>>
\* only touch; total_price 0 needs no payment; cn is a confirmation number
\* the row already carries after serializer.save() (NoCN: none).
CreateRequests ==
    { [actor |-> "guest", listing |-> 1, check_in |-> 1, check_out |-> 3,
       total_price |-> 1, cn |-> NoCN],
      [actor |-> "guest", listing |-> 1, check_in |-> 2, check_out |-> 4,
       total_price |-> 0, cn |-> NoCN],
      [actor |-> "host", listing |-> 1, check_in |-> 3, check_out |-> 5,
       total_price |-> 1, cn |-> "CLIENT01"],
      [actor |-> "guest", listing |-> 2, check_in |-> 2, check_out |-> 4,
       total_price |-> 1, cn |-> NoCN] }

\* str(uuid.uuid4())[:8].upper(): some 8-character code
GeneratedCNs == {"1A2B3C4D"}

GatewayVerifyStatuses == {"success", "failed", "pending"}
GatewayInitStatuses == {"success", "failed"}

\* GET parameters of start_payment ("" : parameter missing)
Amounts == {"", "100"}
PayerEmails == {"", "guest@example.com"}

----------------------------------------------------------------------------
(* Tables *)

Insert(table, key, row) ==
    [k \in DOMAIN table \cup {key} |-> IF k = key THEN row ELSE table[k]]

\* Q(check_in__lt=check_out) & Q(check_out__gt=check_in)
Overlaps(b, check_in, check_out) ==
    b.check_in < check_out /\ b.check_out > check_in

\* status__in=['confirmed', 'active']
Occupying(b) == b.status \in {"confirmed", "active"}

\* Booking row as serializer.save(guest=request.user) leaves it
NewBooking(r) ==
    [listing |-> r.listing, guest |-> r.actor,
     check_in |-> r.check_in, check_out |-> r.check_out,
     total_price |-> r.total_price,
     status |-> "pending", payment_status |-> "pending",
     confirmation_number |-> r.cn,
     confirmed_at |-> NoTime, cancelled_at |-> NoTime, paid_at |-> NoTime,
     updated_at |-> now]

\* Payment row; amount, email, transaction_id and the gateway payloads are
\* written once and read by no handler, so the row keeps only what is read
NewPayment(bookingId) ==
    [booking |-> bookingId, status |-> "pending", paid_at |-> NoTime]

\* booking.save(): auto_now of updated_at
Saved(b) == [b EXCEPT !.updated_at = now]

SerializerValidWithoutOverlapRule(r) == TRUE

\* CreateBookingSerializer.is_valid(): no confirmed/active booking of the
\* listing overlaps the requested window
SerializerValid(r) ==
    \A id \in DOMAIN bookings :
        ~ ( /\ bookings[id].listing = r.listing
            /\ Occupying(bookings[id])
            /\ Overlaps(bookings[id], r.check_in, r.check_out) )

\* Booking.can_be_cancelled: status still open and check-in not reached
CanBeCancelled(b) ==
    b.status \in {"pending", "confirmed"} /\ now < b.check_in

VisibleToGuestOnly(actor, id) ==
    id \in DOMAIN bookings /\ bookings[id].guest = actor

\* BookingViewSet.get_queryset + get_object: the row the actor may address
Visible(actor, id) ==
    /\ id \in DOMAIN bookings
    /\ (IsStaff(actor) \/ bookings[id].guest = actor)

----------------------------------------------------------------------------
(* Jobs *)

ConfirmationTask == "send_booking_confirmation_email"
CancellationTask == "send_booking_cancellation_email"

\* task.delay(booking_data=..., user_email=...): a fresh message
\* retries is request.retries, eta the time before which no worker runs the
\* message; runs counts the executions of the task body
Job(task, id, cn, to) ==
    [task |-> task, booking |-> id, confirmation_number |-> cn, to |-> to,
     retries |-> 0, eta |-> NoTime, runs |-> 0]

\* What the last step returned: the view or task that ran, who asked, the
\* booking id (for verify_payment the payment reference), and the HTTP status
\* of the response (for a task, the value it returned)
Outcome(op, actor, id, code) ==
    [op |-> op, actor |-> actor, id |-> id, result |-> code]

----------------------------------------------------------------------------
(* celery beat: celery.py *)

HoursPerDay == 24

LowStockTask == "crm.tasks.check_and_notify_low_stock"
SummaryTask == "listings.tasks.send_daily_booking_summary"
CleanupTask == "listings.tasks.cleanup_old_bookings"

\* the keys of app.conf.beat_schedule, by the task each one sends
BeatEntries == {LowStockTask, SummaryTask, CleanupTask}

CronMatchesLowStockOnceADay(task, h) ==
    CASE task = LowStockTask -> h = 0
      [] task = SummaryTask  -> h = 8
      [] task = CleanupTask  -> h = 0

CronMatchesCleanupNever(task, h) ==
    CASE task = LowStockTask -> h % 12 = 0
      [] task = SummaryTask  -> h = 8
      [] task = CleanupTask  -> FALSE

\* crontab(hour='*/12', minute=0), crontab(hour=8, minute=0),
\* crontab(hour=0, minute=0): the hours of the day at which an entry is due
CronMatches(task, h) ==
    CASE task = LowStockTask -> h % 12 = 0
      [] task = SummaryTask  -> h = 8
      [] task = CleanupTask  -> h = 0

\* 'args': (10,) of the low-stock entry; the other entries have none
EntryArgs(task) == IF task = LowStockTask THEN <<10>> ELSE <<>>

\* beat as it starts with no stored schedule at hour t (counted from day 0,
\* 00:00): every entry's last_run_at is the time of the start
BeatStarted(t) ==
    [up |-> TRUE, hour |-> t % HoursPerDay,
     last_run_at |-> [e \in BeatEntries |-> t]]

----------------------------------------------------------------------------
(* Request handlers *)

\* if not booking.confirmation_number: ... = str(uuid.uuid4())[:8].upper()
AssignConfirmationNumber(b, gen) ==
    IF b.confirmation_number = NoCN
    THEN Saved([b EXCEPT !.confirmation_number = gen])
    ELSE b

PaymentRequiredAlsoWhenFree(b) == b.total_price >= 0

\* if booking.total_price > 0: self.initialize_payment(booking)
PaymentRequired(b) == b.total_price > 0

InitializePaymentNeverRaises(id, created) ==
    Insert(payments, nextPaymentRef, NewPayment(id))

\* BookingViewSet.initialize_payment: the Payment table after the call;
\* created = FALSE is Payment.objects.create raising, which is caught
InitializePayment(id, created) ==
    IF created
    THEN Insert(payments, nextPaymentRef, NewPayment(id))
    ELSE payments

PerformCreateUnlessOverlap(r, gen, created) ==
    IF \E other \in DOMAIN bookings :
          /\ bookings[other].listing = r.listing
          /\ Overlaps(bookings[other], r.check_in, r.check_out)
    THEN /\ last' = Outcome("create", r.actor, NoBooking, 400)
         /\ UNCHANGED <<bookings, payments, nextBookingId, nextPaymentRef,
                        queue, now, finished>>
    ELSE LET id == nextBookingId
             b == AssignConfirmationNumber(NewBooking(r), gen)
         IN  /\ bookings' = Insert(bookings, id, b)
             /\ nextBookingId' = id + 1
             /\ queue' = Append(queue,
                    Job(ConfirmationTask, id, b.confirmation_number,
                        Email(r.actor)))
             /\ payments' = IF PaymentRequired(b)
                            THEN InitializePayment(id, created)
                            ELSE payments
             /\ nextPaymentRef' = IF PaymentRequired(b) /\ created
                                  THEN nextPaymentRef + 1
                                  ELSE nextPaymentRef
             /\ last' = Outcome("create", r.actor, id, 201)
             /\ UNCHANGED <<now, finished>>

\* BookingViewSet.perform_create, with the 201 of CreateModelMixin.create
PerformCreate(r, gen, created) ==
    LET id == nextBookingId
        b == AssignConfirmationNumber(NewBooking(r), gen)
        pays == IF PaymentRequired(b)
                THEN InitializePayment(id, created)
                ELSE payments
    IN  /\ bookings' = Insert(bookings, id, b)
        /\ nextBookingId' = id + 1
        /\ queue' = Append(queue,
               Job(ConfirmationTask, id, b.confirmation_number,
                   Email(r.actor)))
        /\ payments' = pays
        /\ nextPaymentRef' = IF pays = payments THEN nextPaymentRef
                             ELSE nextPaymentRef + 1
        /\ last' = Outcome("create", r.actor, id, 201)
        /\ UNCHANGED <<now, finished>>

\* POST /bookings/ : CreateModelMixin.create -> perform_create
Create(r, gen, created) ==
    /\ IF ~SerializerValid(r)
       THEN /\ last' = Outcome("create", r.actor, NoBooking, 400)
            /\ UNCHANGED <<bookings, payments, nextBookingId, nextPaymentRef,
                           queue, now, finished>>
       ELSE PerformCreate(r, gen, created)
    /\ UNCHANGED <<beat, inflight>>

\* if booking.guest != request.user and not request.user.is_staff: 403
CancelForbidden(actor, b) == b.guest # actor /\ ~IsStaff(actor)

\* hasattr(booking, 'can_be_cancelled')
HasCanBeCancelled == TRUE

CancelRefusedWrongConnective(b) == ~HasCanBeCancelled /\ ~CanBeCancelled(b)

\* if not hasattr(booking, 'can_be_cancelled') or not booking.can_be_cancelled(): 400
CancelRefused(b) == ~HasCanBeCancelled \/ ~CanBeCancelled(b)

CancelledBookingRefunded(b) ==
    Saved([b EXCEPT !.status = "cancelled", !.cancelled_at = now,
                    !.payment_status = "refunded"])

\* booking.status = 'cancelled'; booking.cancelled_at = timezone.now(); save()
CancelledBooking(b) ==
    Saved([b EXCEPT !.status = "cancelled", !.cancelled_at = now])

\* POST /bookings/{id}/cancel/
Cancel(actor, id) ==
    /\ UNCHANGED <<payments, nextBookingId, nextPaymentRef, now, finished,
                   beat, inflight>>
    /\ IF ~Visible(actor, id)
       THEN /\ last' = Outcome("cancel", actor, id, 404)
            /\ UNCHANGED <<bookings, queue>>
       ELSE IF CancelForbidden(actor, bookings[id])
       THEN /\ last' = Outcome("cancel", actor, id, 403)
            /\ UNCHANGED <<bookings, queue>>
       ELSE IF CancelRefused(bookings[id])
       THEN /\ last' = Outcome("cancel", actor, id, 400)
            /\ UNCHANGED <<bookings, queue>>
       ELSE LET b == CancelledBooking(bookings[id])
            IN  /\ bookings' = [bookings EXCEPT ![id] = b]
                /\ queue' = Append(queue,
                       Job(CancellationTask, id, b.confirmation_number,
                           Email(actor)))
                /\ last' = Outcome("cancel", actor, id, 200)

\* if not request.user.is_staff and booking.listing.host != request.user: 403
ConfirmForbidden(actor, b) == ~IsStaff(actor) /\ ListingHost(b.listing) # actor

\* booking.status = 'confirmed'; booking.confirmed_at = timezone.now(); save()
ConfirmedBooking(b) ==
    Saved([b EXCEPT !.status = "confirmed", !.confirmed_at = now])

\* POST /bookings/{id}/confirm/
Confirm(actor, id) ==
    /\ UNCHANGED <<payments, nextBookingId, nextPaymentRef, now, finished,
                   beat, inflight>>
    /\ IF ~Visible(actor, id)
       THEN /\ last' = Outcome("confirm", actor, id, 404)
            /\ UNCHANGED <<bookings, queue>>
       ELSE IF ConfirmForbidden(actor, bookings[id])
       THEN /\ last' = Outcome("confirm", actor, id, 403)
            /\ UNCHANGED <<bookings, queue>>
       ELSE LET b == ConfirmedBooking(bookings[id])
            IN  /\ bookings' = [bookings EXCEPT ![id] = b]
                /\ queue' = Append(queue,
                       Job(ConfirmationTask, id, b.confirmation_number,
                           Email(b.guest)))
                /\ last' = Outcome("confirm", actor, id, 200)

ParametersMissingOnlyIfBoth(amount, email) == amount = "" /\ email = ""

\* if not amount or not email: 400
ParametersMissing(amount, email) == amount = "" \/ email = ""

StartedPaymentUnlinked(bookingId) == NewPayment(NoBooking)

\* Payment.objects.create(booking=booking, ..., status="pending")
StartedPayment(bookingId) == NewPayment(bookingId)

\* GET start_payment?amount=&email=&booking_id=
StartPayment(amount, email, bookingId, gw) ==
    /\ UNCHANGED <<nextBookingId, queue, now, finished, beat, inflight>>
    /\ IF ParametersMissing(amount, email)
       THEN /\ last' = Outcome("start_payment", NoUser, bookingId, 400)
            /\ UNCHANGED <<bookings, payments, nextPaymentRef>>
       ELSE IF gw # "success"
       THEN /\ last' = Outcome("start_payment", NoUser, bookingId, 500)
            /\ UNCHANGED <<bookings, payments, nextPaymentRef>>
       ELSE IF bookingId # NoBooking /\ bookingId \notin DOMAIN bookings
       THEN \* Booking.DoesNotExist, caught by the handler's except
            /\ last' = Outcome("start_payment", NoUser, bookingId, 500)
            /\ UNCHANGED <<bookings, payments, nextPaymentRef>>
       ELSE /\ payments' = Insert(payments, nextPaymentRef,
                                   StartedPayment(bookingId))
            /\ nextPaymentRef' = nextPaymentRef + 1
            /\ bookings' =
                 IF bookingId # NoBooking
                 THEN [bookings EXCEPT ![bookingId] =
                          Saved([@ EXCEPT !.payment_status = "pending"])]
                 ELSE bookings
            /\ last' = Outcome("start_payment", NoUser, bookingId, 200)

GatewaySucceededUnlessFailed(gw) == gw # "failed"

\* if status_value == "success":
GatewaySucceeded(gw) == gw = "success"

PaidBookingStatusForgotten(b) ==
    Saved([b EXCEPT !.payment_status = "completed", !.paid_at = now])

\* booking.status = 'confirmed'; booking.payment_status = 'completed';
\* booking.paid_at = timezone.now(); booking.save()
PaidBooking(b) ==
    Saved([b EXCEPT !.status = "confirmed", !.payment_status = "completed",
                    !.paid_at = now])

UnpaidBookingUnlessCompleted(b) ==
    IF b.payment_status = "completed"
    THEN Saved(b)
    ELSE Saved([b EXCEPT !.payment_status = "failed"])

\* booking.payment_status = 'failed'; booking.save()
UnpaidBooking(b) == Saved([b EXCEPT !.payment_status = "failed"])

\* payment.booking after Payment.objects.get(reference=reference)
LinkedBooking(p) ==
    IF p.booking # NoBooking /\ p.booking \in DOMAIN bookings
    THEN p.booking ELSE NoBooking

PaymentNotFoundAnswersOk(ref) == Outcome("verify_payment", NoUser, ref, 200)

\* except Payment.DoesNotExist: JsonResponse(..., status=404)
PaymentNotFound(ref) == Outcome("verify_payment", NoUser, ref, 404)

\* GET verify_payment/{reference}
VerifyPayment(ref, gw) ==
    /\ UNCHANGED <<nextBookingId, nextPaymentRef, now, finished, beat, inflight>>
    /\ IF ref \notin DOMAIN payments
       THEN /\ last' = PaymentNotFound(ref)
            /\ UNCHANGED <<bookings, payments, queue>>
       ELSE LET p == payments[ref]
                id == LinkedBooking(p)
            IN  /\ last' = Outcome("verify_payment", NoUser, ref, 200)
                /\ IF GatewaySucceeded(gw)
                   THEN /\ payments' = [payments EXCEPT ![ref] =
                               [p EXCEPT !.status = "completed", !.paid_at = now]]
                        /\ IF id # NoBooking
                           THEN LET b == PaidBooking(bookings[id])
                                IN  /\ bookings' = [bookings EXCEPT ![id] = b]
                                    /\ queue' = Append(queue,
                                          Job(ConfirmationTask, id,
                                              b.confirmation_number,
                                              Email(b.guest)))
                           ELSE UNCHANGED <<bookings, queue>>
                   ELSE /\ payments' = [payments EXCEPT ![ref] =
                               [p EXCEPT !.status = "failed"]]
                        /\ bookings' =
                             IF id # NoBooking
                             THEN [bookings EXCEPT ![id] = UnpaidBooking(@)]
                             ELSE bookings
                        /\ UNCHANGED queue

\* a day passes between two requests
Tick ==
    /\ now' = now + 1
    /\ last' = Outcome("tick", NoUser, NoBooking, 0)
    /\ UNCHANGED <<bookings, payments, nextBookingId, nextPaymentRef, queue,
                   finished, beat, inflight>>

EmptyTable == [k \in {} |-> 0]

Init ==
    /\ bookings = EmptyTable
    /\ payments = EmptyTable
    /\ nextBookingId = 1
    /\ nextPaymentRef = 1
    /\ queue = <<>>
    /\ now = 0
    /\ finished = <<>>
    /\ last = Outcome("init", NoUser, NoBooking, 0)
    /\ beat = BeatStarted(0)
    /\ inflight = EmptyTable

\* Any request at any time. The tables, the queue and the clock grow without
\* limit: the model stops at MaxBookings bookings, MaxPayments payments,
\* MaxQueue queued jobs and day MaxNow.
Next ==
    \/ \E r \in CreateRequests, gen \in GeneratedCNs, created \in BOOLEAN :
          /\ nextBookingId <= MaxBookings
          /\ Len(queue) < MaxQueue
          /\ (r.total_price > 0 /\ created) => nextPaymentRef <= MaxPayments
          /\ Create(r, gen, created)
    \/ \E actor \in Users, id \in 1..MaxBookings :
          Len(queue) < MaxQueue /\ Cancel(actor, id)
    \/ \E actor \in Users, id \in 1..MaxBookings :
          Len(queue) < MaxQueue /\ Confirm(actor, id)
    \/ \E amount \in Amounts, email \in PayerEmails,
          bookingId \in 0..(MaxBookings + 1), gw \in GatewayInitStatuses :
          nextPaymentRef <= MaxPayments /\ StartPayment(amount, email, bookingId, gw)
    \/ \E ref \in 1..(MaxPayments + 1), gw \in GatewayVerifyStatuses :
          Len(queue) < MaxQueue /\ VerifyPayment(ref, gw)
    \/ (now < MaxNow /\ Tick)

Spec == Init /\ [][Next]_vars

----------------------------------------------------------------------------
(* Worker: listings/tasks.py *)

\* @shared_task(bind=True, max_retries=3)
MaxRetries == 3
\* self.retry(exc=e, countdown=300)
RetryCountdown == 300

\* a message is handed to a worker once its eta has passed
Due(j) == j.eta = NoTime \/ j.eta <= now

Remove(q, i) == SubSeq(q, 1, i - 1) \o SubSeq(q, i + 1, Len(q))

\* the task's final state in the result backend, and what it returned
Done(j, state, returned) ==
    [task |-> j.task, booking |-> j.booking, retries |-> j.retries,
     runs |-> j.runs, state |-> state, returned |-> returned]

JobStep(task, id, state) ==
    [op |-> task, actor |-> NoUser, id |-> id, result |-> 0, state |-> state]

RetriesExhaustedOneLate(j) == j.retries > MaxRetries

\* Task.retry raises exc instead of Retry once request.retries >= max_retries
RetriesExhausted(j) == j.retries >= MaxRetries

\* Task.retry: the same message, published again for now + countdown
Retried(j) == [j EXCEPT !.retries = @ + 1, !.eta = now + RetryCountdown]

JobFrameFailureMarksBooking(j, sent) ==
    /\ bookings' = [id \in DOMAIN bookings |->
                      IF id = j.booking /\ ~sent
                      THEN [bookings[id] EXCEPT !.status = "pending"]
                      ELSE bookings[id]]
    /\ UNCHANGED <<payments, nextBookingId, nextPaymentRef, now, beat, inflight>>

\* the two tasks work on the booking_data dict and the address they were
\* given: neither reads nor writes a Booking or a Payment
JobFrame(j, sent) ==
    UNCHANGED <<bookings, payments, nextBookingId, nextPaymentRef, now, beat, inflight>>

TakesHeadOnly(i) == i = 1 /\ Len(queue) >= 1

\* @shared_task: a worker of the pool takes the i-th message, whichever
\* messages were published before it
Takes(i) == i \in 1..Len(queue)

\* send_booking_confirmation_email run by a worker on the i-th message;
\* sent = FALSE is render_to_string or email.send raising
RunConfirmation(i, sent) ==
    /\ Takes(i)
    /\ queue[i].task = ConfirmationTask
    /\ Due(queue[i])
    /\ LET j == [queue[i] EXCEPT !.runs = @ + 1] IN
       IF sent
       THEN /\ queue' = Remove(queue, i)
            /\ finished' = Append(finished, Done(j, "SUCCESS", "Email sent"))
            /\ last' = JobStep(j.task, j.booking, "SUCCESS")
       ELSE IF RetriesExhausted(j)
       THEN /\ queue' = Remove(queue, i)
            /\ finished' = Append(finished, Done(j, "FAILURE", "raised"))
            /\ last' = JobStep(j.task, j.booking, "FAILURE")
       ELSE /\ queue' = Append(Remove(queue, i), Retried(j))
            /\ finished' = finished
            /\ last' = JobStep(j.task, j.booking, "RETRY")
    /\ JobFrame(queue[i], sent)

CancellationReturnedAlwaysTrue(sent) == "True"

\* return True after send_mail; return False in the except branch
CancellationReturned(sent) == IF sent THEN "True" ELSE "False"

\* send_booking_cancellation_email run by a worker on the i-th message;
\* the except branch returns False, so the task ends in SUCCESS either way
RunCancellation(i, sent) ==
    /\ Takes(i)
    /\ queue[i].task = CancellationTask
    /\ Due(queue[i])
    /\ LET j == [queue[i] EXCEPT !.runs = @ + 1] IN
       /\ queue' = Remove(queue, i)
       /\ finished' = Append(finished,
             Done(j, "SUCCESS", CancellationReturned(sent)))
       /\ last' = JobStep(j.task, j.booking, "SUCCESS")
    /\ JobFrame(queue[i], sent)

\* task.delay(...) called by a view for booking id
Delay(task, id) ==
    /\ queue' = Append(queue, Job(task, id, "1A2B3C4D", Email("guest")))
    /\ last' = Outcome("delay", NoUser, id, 0)
    /\ UNCHANGED <<bookings, payments, nextBookingId, nextPaymentRef, now,
                   finished, beat, inflight>>

\* the worker's clock advances
TickSeconds ==
    /\ now' = now + SecondsPerTick
    /\ last' = Outcome("tick", NoUser, NoBooking, 0)
    /\ UNCHANGED <<bookings, payments, nextBookingId, nextPaymentRef, queue,
                   finished, beat, inflight>>

NextJobs ==
    \/ \E task \in {ConfirmationTask, CancellationTask}, id \in 1..MaxJobs :
          Len(queue) + Len(finished) < MaxJobs /\ Delay(task, id)
    \/ \E i \in 1..MaxJobs, sent \in BOOLEAN : RunConfirmation(i, sent)
    \/ \E i \in 1..MaxJobs, sent \in BOOLEAN : RunCancellation(i, sent)
    \/ (now + SecondsPerTick <= MaxClock /\ TickSeconds)

SpecJobs == Init /\ [][NextJobs]_vars

----------------------------------------------------------------------------
(* Requests and worker side by side *)

\* messages published so far and not retried: each is queued or finished
Published == Len(queue) + Len(finished)

\* The handlers that enqueue, and a worker that takes any due message at any
\* time, or never, and sees the mail sent or not. The clock stands still, so
\* a retried confirmation waits in the queue.
NextAsync ==
    \/ \E r \in CreateRequests, gen \in GeneratedCNs, created \in BOOLEAN :
          /\ nextBookingId <= AsyncBookings
          /\ Published < AsyncJobs
          /\ (r.total_price > 0 /\ created) => nextPaymentRef <= AsyncPayments
          /\ Create(r, gen, created)
    \/ \E actor \in Users, id \in 1..AsyncBookings :
          Published < AsyncJobs /\ Cancel(actor, id)
    \/ \E actor \in Users, id \in 1..AsyncBookings :
          Published < AsyncJobs /\ Confirm(actor, id)
    \/ \E ref \in 1..(AsyncPayments + 1), gw \in GatewayVerifyStatuses :
          Published < AsyncJobs /\ VerifyPayment(ref, gw)
    \/ \E i \in 1..AsyncJobs, sent \in BOOLEAN : RunConfirmation(i, sent)
    \/ \E i \in 1..AsyncJobs, sent \in BOOLEAN : RunCancellation(i, sent)

SpecAsync == Init /\ [][NextAsync]_vars

----------------------------------------------------------------------------
(* cleanup_old_bookings *)

\* timedelta(days=30)
CleanupDays == 30

CleanupSelectsAtCutoff(b) ==
    b.status = "cancelled" /\ b.updated_at <= now - CleanupDays

\* Booking.objects.filter(status='cancelled', updated_at__lt=cutoff_date)
CleanupSelects(b) ==
    b.status = "cancelled" /\ b.updated_at < now - CleanupDays

PaymentsAfterDeleteCascade(old) ==
    [ref \in {k \in DOMAIN payments : payments[k].booking \notin old}
        |-> payments[ref]]

\* the Payment table after the bookings in old are deleted: Payment.booking
\* is a non-owning reference and no cascading delete is specified, so the
\* rows stay as they are
PaymentsAfterDelete(old) == payments

\* the body of cleanup_old_bookings: count(), then delete()
Cleaned ==
    LET old == {id \in DOMAIN bookings : CleanupSelects(bookings[id])} IN
    /\ bookings' = [id \in DOMAIN bookings \ old |-> bookings[id]]
    /\ payments' = PaymentsAfterDelete(old)
    /\ last' = Outcome("cleanup_old_bookings", NoUser, NoBooking,
                       Cardinality(old))

\* cleanup_old_bookings run by a worker
CleanupOldBookings ==
    /\ Cleaned
    /\ UNCHANGED <<nextBookingId, nextPaymentRef, queue, now, finished, beat, inflight>>

\* a Booking table as the handlers leave it: rows in any status, last saved
\* on one of the first days, seen CleanupDays days after day 0
AgedRow(status, day) ==
    [listing |-> 1, guest |-> "guest", check_in |-> day + 1,
     check_out |-> day + 3, total_price |-> 0,
     status |-> status, payment_status |-> "pending",
     confirmation_number |-> "1A2B3C4D",
     confirmed_at |-> IF status = "confirmed" THEN day ELSE NoTime,
     cancelled_at |-> IF status = "cancelled" THEN day ELSE NoTime,
     paid_at |-> NoTime, updated_at |-> day]

InitCleanup ==
    /\ bookings \in [1..NumRows ->
          {AgedRow(st, day) : st \in {"pending", "confirmed", "cancelled"},
                              day \in 0..MaxUpdatedAt}]
    /\ payments = EmptyTable
    /\ nextBookingId = NumRows + 1
    /\ nextPaymentRef = 1
    /\ queue = <<>>
    /\ now = CleanupDays
    /\ finished = <<>>
    /\ last = Outcome("init", NoUser, NoBooking, 0)
    /\ beat = BeatStarted(0)
    /\ inflight = EmptyTable

NextCleanup ==
    \/ CleanupOldBookings
    \/ (now < CleanupDays + MaxCleanupTicks /\ Tick)

SpecCleanup == InitCleanup /\ [][NextCleanup]_vars

----------------------------------------------------------------------------
(* celery beat and the worker that runs what it sends *)

\* hours since day 0, 00:00
Clock == now * HoursPerDay + beat.hour

\* crontab.is_due(last_run_at): the entry's next run after the last one
\* is not in the future at hour t
Overdue(e, t) ==
    \E u \in (beat.last_run_at[e] + 1)..t : CronMatches(e, u % HoursPerDay)

\* apply_async of an entry at hour t
Scheduled(e, t) ==
    [task |-> e, args |-> EntryArgs(e), sent_at |-> t]

\* the orders in which beat may send the entries that are due together
Orders(due) ==
    {seq \in [1..Cardinality(due) -> due] :
        \A i, j \in 1..Cardinality(due) : i # j => seq[i] # seq[j]}

\* beat sends the entries in due at hour t and remembers that it did
Sent(due, t) ==
    /\ \E seq \in Orders(due) :
          queue' = queue \o [k \in 1..Cardinality(due) |-> Scheduled(seq[k], t)]
    /\ beat' = [up |-> TRUE, hour |-> t % HoursPerDay,
                last_run_at |-> [e \in BeatEntries |->
                                   IF e \in due THEN t
                                   ELSE beat.last_run_at[e]]]

\* An hour passes. A running beat sends the entries that have become due; a
\* stopped one sends nothing.
BeatTick ==
    LET t == Clock + 1 IN
    /\ now' = t \div HoursPerDay
    /\ IF beat.up
       THEN Sent({e \in BeatEntries : Overdue(e, t)}, t)
       ELSE /\ beat' = [beat EXCEPT !.hour = t % HoursPerDay]
            /\ queue' = queue
    /\ last' = Outcome("beat_tick", NoUser, NoBooking, 0)
    /\ UNCHANGED <<bookings, payments, nextBookingId, nextPaymentRef, finished,
                   inflight>>

\* the beat process stops
BeatStop ==
    /\ beat.up
    /\ beat' = [beat EXCEPT !.up = FALSE]
    /\ last' = Outcome("beat_stop", NoUser, NoBooking, 0)
    /\ UNCHANGED <<bookings, payments, nextBookingId, nextPaymentRef, queue,
                   now, finished, inflight>>

\* The beat process starts again. With its schedule file kept it finds each
\* entry's stored last_run_at and sends at once the entries whose next run
\* has passed meanwhile; without the file every entry starts afresh.
BeatStart(kept) ==
    /\ ~beat.up
    /\ IF kept
       THEN Sent({e \in BeatEntries : Overdue(e, Clock)}, Clock)
       ELSE /\ beat' = BeatStarted(Clock)
            /\ queue' = queue
    /\ last' = Outcome("beat_start", NoUser, NoBooking, 0)
    /\ UNCHANGED <<bookings, payments, nextBookingId, nextPaymentRef, now,
                   finished, inflight>>

\* a worker runs the cleanup_old_bookings message at position i
RunCleanup(i) ==
    /\ i \in 1..Len(queue)
    /\ queue[i].task = CleanupTask
    /\ Cleaned
    /\ queue' = Remove(queue, i)
    /\ UNCHANGED <<nextBookingId, nextPaymentRef, now, finished, beat, inflight>>

\* a worker runs the daily summary or the low-stock check at position i:
\* neither writes a Booking or a Payment
RunReport(i) ==
    /\ i \in 1..Len(queue)
    /\ queue[i].task \in {SummaryTask, LowStockTask}
    /\ queue' = Remove(queue, i)
    /\ last' = JobStep(queue[i].task, NoBooking, "SUCCESS")
    /\ UNCHANGED <<bookings, payments, nextBookingId, nextPaymentRef, now,
                   finished, beat, inflight>>

\* the entries the next tick will send
DueNext == {e \in BeatEntries : beat.up /\ Overdue(e, Clock + 1)}

NextBeat ==
    \/ /\ Clock < BeatHours
       /\ Len(queue) + Cardinality(DueNext) <= BeatQueue
       /\ BeatTick
    \/ BeatStop
    \/ \E kept \in BOOLEAN :
          /\ Len(queue) + Cardinality({e \in BeatEntries : Overdue(e, Clock)})
                <= BeatQueue
          /\ BeatStart(kept)
    \/ \E i \in 1..BeatQueue : RunCleanup(i)
    \/ \E i \in 1..BeatQueue : RunReport(i)

SpecBeat == Init /\ [][NextBeat]_vars

----------------------------------------------------------------------------
(* A booking from its cancellation to its deletion, with beat always up *)

\* a booking made on day 0 for a stay after the last day looked at
LiveRow ==
    [listing |-> 1, guest |-> "guest", check_in |-> LiveDays + 1,
     check_out |-> LiveDays + 3, total_price |-> 0,
     status |-> "pending", payment_status |-> "pending",
     confirmation_number |-> "1A2B3C4D",
     confirmed_at |-> NoTime, cancelled_at |-> NoTime,
     paid_at |-> NoTime, updated_at |-> 0]

InitLive ==
    /\ bookings = Insert(EmptyTable, 1, LiveRow)
    /\ payments = EmptyTable
    /\ nextBookingId = 2
    /\ nextPaymentRef = 1
    /\ queue = <<>>
    /\ now = 0
    /\ finished = <<>>
    /\ last = Outcome("init", NoUser, NoBooking, 0)
    /\ beat = BeatStarted(0)
    /\ inflight = EmptyTable

\* an hour passes once the worker has run what was sent in the hour before
LiveTick ==
    /\ Clock < LiveDays * HoursPerDay
    /\ Len(queue) = 0
    /\ BeatTick

LiveCancel ==
    \E actor \in Users :
        now <= LiveRequestDays /\ Len(queue) = 0 /\ Cancel(actor, 1)

\* start_payment for the booking: the one request that saves a cancelled
\* booking again
LiveStartPayment ==
    \E amount \in Amounts, email \in PayerEmails, gw \in GatewayInitStatuses :
        /\ now <= LiveRequestDays
        /\ nextPaymentRef <= LivePayments
        /\ StartPayment(amount, email, 1, gw)

LiveRunCancellation == \E sent \in BOOLEAN : RunCancellation(1, sent)

\* the scheduled messages of one hour, run in any order
LiveRunCleanup == \E i \in 1..Cardinality(BeatEntries) : RunCleanup(i)

LiveRunReport == \E i \in 1..Cardinality(BeatEntries) : RunReport(i)

NextLive ==
    \/ LiveTick
    \/ LiveCancel
    \/ LiveStartPayment
    \/ LiveRunCancellation
    \/ LiveRunCleanup
    \/ LiveRunReport

\* beat keeps ticking and the worker keeps running what is in the queue
SpecLive ==
    /\ InitLive
    /\ [][NextLive]_vars
    /\ WF_vars(LiveTick)
    /\ WF_vars(LiveRunCancellation)
    /\ WF_vars(LiveRunCleanup)
    /\ WF_vars(LiveRunReport)

----------------------------------------------------------------------------
(* Properties of the request handlers, checked under Spec *)

\* the booking rows other than id are the same before and after the step
OthersUnchanged(id) ==
    /\ DOMAIN bookings' = DOMAIN bookings
    /\ \A k \in DOMAIN bookings : k # id => bookings'[k] = bookings[k]

\* the step appended exactly the job j to the queue
Enqueued(j) == queue' = Append(queue, j)

\* payments linked to booking id
LinkedPayments(table, id) == {ref \in DOMAIN table : table[ref].booking = id}

\* C1: no two distinct bookings of one listing, both confirmed or active,
\* have overlapping [check_in, check_out) windows.
C1_NoDoubleBooking ==
    \A a \in DOMAIN bookings : \A b \in DOMAIN bookings :
        ( /\ a # b
          /\ bookings[a].listing = bookings[b].listing
          /\ bookings[a].status \in {"confirmed", "active"}
          /\ bookings[b].status \in {"confirmed", "active"} )
        => ~ ( /\ bookings[a].check_in < bookings[b].check_out
               /\ bookings[a].check_out > bookings[b].check_in )

\* C2: a Create whose window overlaps a confirmed or active booking of the
\* same listing answers 400 and persists no Booking, creates no Payment and
\* enqueues no job.
C2_CreateConflictRejected ==
    [][ \A r \in CreateRequests :
          ( /\ last'.op = "create"
            /\ \E gen \in GeneratedCNs, created \in BOOLEAN :
                  Create(r, gen, created)
            /\ \E id \in DOMAIN bookings :
                  /\ bookings[id].listing = r.listing
                  /\ bookings[id].status \in {"confirmed", "active"}
                  /\ bookings[id].check_in < r.check_out
                  /\ bookings[id].check_out > r.check_in )
          => ( /\ last'.result = 400
               /\ bookings' = bookings
               /\ payments' = payments
               /\ queue' = queue ) ]_vars

C2_Witness ==
    /\ last.op = "create"
    /\ last.result = 400
    /\ \E id \in DOMAIN bookings : bookings[id].status = "confirmed"

\* C3: VerifyPayment of a payment linked to booking B, answered "success" by
\* the gateway, leaves the payment completed, B confirmed with payment_status
\* completed, and enqueues exactly one confirmation job to B's guest,
\* whatever B's status was.
C3_VerifySuccess ==
    [][ \A ref \in DOMAIN payments :
          ( /\ VerifyPayment(ref, "success")
            /\ payments[ref].booking \in DOMAIN bookings )
          => LET id == payments[ref].booking IN
             /\ last'.result = 200
             /\ payments'[ref].status = "completed"
             /\ bookings'[id].status = "confirmed"
             /\ bookings'[id].payment_status = "completed"
             /\ Enqueued(Job(ConfirmationTask, id,
                             bookings[id].confirmation_number,
                             Email(bookings[id].guest))) ]_vars

\* the verified booking had been cancelled before the payment went through
C3_Witness ==
    /\ last.op = "verify_payment"
    /\ last.result = 200
    /\ payments[last.id].status = "completed"
    /\ payments[last.id].booking \in DOMAIN bookings
    /\ bookings[payments[last.id].booking].status = "confirmed"
    /\ bookings[payments[last.id].booking].payment_status = "completed"
    /\ bookings[payments[last.id].booking].cancelled_at # NoTime
    /\ bookings[payments[last.id].booking].confirmed_at = NoTime
    /\ queue[Len(queue)].task = ConfirmationTask
    /\ queue[Len(queue)].booking = payments[last.id].booking

\* C4: VerifyPayment answered anything but "success" leaves the payment
\* failed, sets a linked booking's payment_status to failed without touching
\* its status, and enqueues nothing.
C4_VerifyFailure ==
    [][ \A ref \in DOMAIN payments :
        \A gw \in GatewayVerifyStatuses \ {"success"} :
          VerifyPayment(ref, gw)
          => /\ payments'[ref].status = "failed"
             /\ queue' = queue
             /\ payments[ref].booking \in DOMAIN bookings
                  => LET id == payments[ref].booking IN
                     /\ bookings'[id].payment_status = "failed"
                     /\ bookings'[id].status = bookings[id].status ]_vars

C4_Witness ==
    /\ last.op = "verify_payment"
    /\ last.result = 200
    /\ payments[last.id].status = "failed"
    /\ payments[last.id].booking \in DOMAIN bookings
    /\ bookings[payments[last.id].booking].payment_status = "failed"
    /\ bookings[payments[last.id].booking].status = "confirmed"

\* C5: a Cancel by the guest or an admin on a booking that is already
\* cancelled answers 400, leaves the row (status, cancelled_at) as it was and
\* enqueues no second cancellation job.
C5_SecondCancelRejected ==
    [][ \A id \in DOMAIN bookings :
          ( /\ last'.op = "cancel"
            /\ last'.id = id
            /\ (IsStaff(last'.actor) \/ bookings[id].guest = last'.actor)
            /\ bookings[id].status = "cancelled" )
          => ( /\ last'.result = 400
               /\ bookings' = bookings
               /\ queue' = queue ) ]_vars

\* the second Cancel came a day after the first
C5_Witness ==
    /\ last.op = "cancel"
    /\ last.result = 400
    /\ last.id \in DOMAIN bookings
    /\ bookings[last.id].status = "cancelled"
    /\ bookings[last.id].cancelled_at < now

\* What every successful Create leaves behind, apart from the Payment: one
\* new Booking whose guest is the requesting actor, with a confirmation
\* number (the one supplied, else a generated one), and one confirmation job
\* carrying that number.
CreatedBookingAndJob(r) ==
    LET id == nextBookingId IN
    /\ DOMAIN bookings' = DOMAIN bookings \cup {id}
    /\ \A k \in DOMAIN bookings : bookings'[k] = bookings[k]
    /\ bookings'[id].guest = r.actor
    /\ bookings'[id].confirmation_number # NoCN
    /\ r.cn # NoCN => bookings'[id].confirmation_number = r.cn
    /\ r.cn = NoCN => bookings'[id].confirmation_number \in GeneratedCNs
    /\ Len(queue') = Len(queue) + 1
    /\ SubSeq(queue', 1, Len(queue)) = queue
    /\ queue'[Len(queue')].task = ConfirmationTask
    /\ queue'[Len(queue')].confirmation_number =
          bookings'[id].confirmation_number

\* the Payment rows the step added
NewPayments == DOMAIN payments' \ DOMAIN payments

\* C8 as stated: every successful Create with total_price > 0 creates
\* exactly one pending Payment linked to the booking, and none otherwise.
C8_CreateAlwaysPays ==
    [][ \A r \in CreateRequests :
          ( /\ last'.op = "create"
            /\ last'.result = 201
            /\ \E gen \in GeneratedCNs, created \in BOOLEAN :
                  Create(r, gen, created) )
          => /\ CreatedBookingAndJob(r)
             /\ \A ref \in DOMAIN payments : payments'[ref] = payments[ref]
             /\ r.total_price > 0 =>
                  /\ Cardinality(NewPayments) = 1
                  /\ \A ref \in NewPayments :
                        payments'[ref] = [booking |-> nextBookingId,
                                          status |-> "pending",
                                          paid_at |-> NoTime]
             /\ r.total_price <= 0 => NewPayments = {} ]_vars

\* C8 (amended): every successful Create persists one Booking bound to the
\* requesting actor, with a non-empty confirmation number (generated only if
\* absent), and enqueues one confirmation job carrying that number; it
\* creates one pending Payment linked to the booking if total_price > 0 and
\* Payment creation does not raise, and no Payment if total_price <= 0 or
\* the creation raises (initialize_payment swallows the exception).
C8_CreateEffects ==
    [][ \A r \in CreateRequests : \A created \in BOOLEAN :
          ( /\ last'.op = "create"
            /\ last'.result = 201
            /\ \E gen \in GeneratedCNs : Create(r, gen, created) )
          => /\ CreatedBookingAndJob(r)
             /\ \A ref \in DOMAIN payments : payments'[ref] = payments[ref]
             /\ (r.total_price > 0 /\ created) =>
                  /\ Cardinality(NewPayments) = 1
                  /\ \A ref \in NewPayments :
                        payments'[ref] = [booking |-> nextBookingId,
                                          status |-> "pending",
                                          paid_at |-> NoTime]
             /\ (r.total_price <= 0 \/ ~created) => NewPayments = {} ]_vars

\* a free booking was created next to a paid one: one Payment, for the paid
C8_Witness ==
    /\ last.op = "create"
    /\ last.result = 201
    /\ bookings[last.id].total_price = 0
    /\ LinkedPayments(payments, last.id) = {}
    /\ \E id \in DOMAIN bookings :
          /\ bookings[id].total_price > 0
          /\ Cardinality(LinkedPayments(payments, id)) = 1
          /\ \A ref \in LinkedPayments(payments, id) : payments[ref].status = "pending"

\* C9: Cancel by an actor who is neither the booking's guest nor an admin is
\* rejected, changes no booking and enqueues nothing; Cancel by the guest or
\* an admin on a booking that can be cancelled sets status = cancelled and
\* cancelled_at = now and enqueues exactly one cancellation job.
C9_CancelPermission ==
    [][ \A id \in DOMAIN bookings :
          (last'.op = "cancel" /\ last'.id = id)
          => IF ~IsStaff(last'.actor) /\ bookings[id].guest # last'.actor
             THEN /\ last'.result \in {403, 404}
                  /\ bookings' = bookings
                  /\ queue' = queue
             ELSE (bookings[id].status \in {"pending", "confirmed"}
                   /\ now < bookings[id].check_in)
                  => /\ last'.result = 200
                     /\ bookings'[id].status = "cancelled"
                     /\ bookings'[id].cancelled_at = now
                     /\ OthersUnchanged(id)
                     /\ Len(queue') = Len(queue) + 1
                     /\ SubSeq(queue', 1, Len(queue)) = queue
                     /\ queue'[Len(queue')].task = CancellationTask
                     /\ queue'[Len(queue')].booking = id ]_vars

\* an admin cancelled a guest's booking
C9_Witness ==
    /\ last.op = "cancel"
    /\ last.actor = "admin"
    /\ last.result = 200
    /\ bookings[last.id].guest = "guest"
    /\ bookings[last.id].status = "cancelled"
    /\ bookings[last.id].cancelled_at = now
    /\ Len(queue) >= 2
    /\ queue[Len(queue)].task = CancellationTask

\* C10: Confirm by an admin or by the host of the booking's listing succeeds:
\* status = confirmed, confirmed_at = now and one confirmation job to the
\* guest; by anybody else it fails and changes nothing.
C10_ConfirmPermission ==
    [][ \A id \in DOMAIN bookings :
          (last'.op = "confirm" /\ last'.id = id)
          => IF IsStaff(last'.actor)
                \/ ListingHost(bookings[id].listing) = last'.actor
             THEN /\ last'.result = 200
                  /\ bookings'[id].status = "confirmed"
                  /\ bookings'[id].confirmed_at = now
                  /\ Enqueued(Job(ConfirmationTask, id,
                                  bookings[id].confirmation_number,
                                  Email(bookings[id].guest)))
             ELSE /\ last'.result \in {403, 404}
                  /\ bookings' = bookings
                  /\ queue' = queue ]_vars

\* C11: VerifyPayment of a reference that matches no Payment answers 404
\* whatever the gateway says, and changes no Payment, no Booking and
\* enqueues nothing.
C11_VerifyUnknownReference ==
    [][ \A ref \in 1..(MaxPayments + 1) : \A gw \in GatewayVerifyStatuses :
          (ref \notin DOMAIN payments /\ VerifyPayment(ref, gw))
          => /\ last'.result = 404
             /\ payments' = payments
             /\ bookings' = bookings
             /\ queue' = queue ]_vars

\* an unknown reference was verified while another payment was pending
C11_Witness ==
    /\ last.op = "verify_payment"
    /\ last.result = 404
    /\ last.id \notin DOMAIN payments
    /\ \E ref \in DOMAIN payments :
          /\ payments[ref].status = "pending"
          /\ payments[ref].booking \in DOMAIN bookings

\* C12: when Payment creation inside Create raises, Create still answers
\* 201: the Booking is persisted, pending, with its confirmation number, the
\* confirmation job stays enqueued, and no Payment row exists for it.
C12_PaymentFailureKeepsBooking ==
    [][ \A r \in CreateRequests : \A gen \in GeneratedCNs :
          ( /\ r.total_price > 0
            /\ last'.op = "create"
            /\ last'.result # 400
            /\ Create(r, gen, FALSE) )
          => LET id == nextBookingId IN
             /\ last'.result = 201
             /\ id \in DOMAIN bookings'
             /\ bookings'[id].status = "pending"
             /\ bookings'[id].confirmation_number =
                   (IF r.cn = NoCN THEN gen ELSE r.cn)
             /\ Enqueued(Job(ConfirmationTask, id,
                             bookings'[id].confirmation_number,
                             Email(r.actor)))
             /\ payments' = payments
             /\ LinkedPayments(payments', id) = {} ]_vars

\* a priced booking stands without any Payment, its job in the queue
C12_Witness ==
    /\ last.op = "create"
    /\ last.result = 201
    /\ bookings[last.id].total_price > 0
    /\ bookings[last.id].status = "pending"
    /\ bookings[last.id].confirmation_number # NoCN
    /\ LinkedPayments(payments, last.id) = {}
    /\ queue[Len(queue)].booking = last.id
    /\ queue[Len(queue)].task = ConfirmationTask

\* C13: start_payment whose gateway initialization does not report
\* "success" answers 500, creates no Payment and leaves every booking
\* (payment_status included) as it was; start_payment without amount or
\* without email answers 400 whatever the gateway would have said, and
\* creates no Payment.
C13_StartPaymentErrors ==
    [][ last'.op = "start_payment" =>
        \A amount \in Amounts, email \in PayerEmails :
        \A gw \in GatewayInitStatuses :
          StartPayment(amount, email, last'.id, gw)
          => /\ (amount = "" \/ email = "")
                  => /\ last'.result = 400
                     /\ payments' = payments
                     /\ bookings' = bookings
             /\ (amount # "" /\ email # "" /\ gw # "success")
                  => /\ last'.result = 500
                     /\ payments' = payments
                     /\ bookings' = bookings ]_vars

\* the gateway refused to initialize a payment for an existing booking that
\* has none: the booking is as Create left it
C13_Witness ==
    /\ last.op = "start_payment"
    /\ last.result = 500
    /\ last.id \in DOMAIN bookings
    /\ bookings[last.id].payment_status = "pending"
    /\ bookings[last.id].updated_at < now
    /\ payments = EmptyTable

----------------------------------------------------------------------------
(* Properties of the worker, checked under SpecJobs *)

\* C6: a confirmation job all of whose attempts fail is retried exactly
\* MaxRetries = 3 times, each retry published for RetryCountdown = 300
\* seconds after the failed attempt and not run before, and then ends in
\* FAILURE after its fourth run and is never run again.
C6_RetryPolicy ==
    /\ [](\A k \in 1..Len(finished) :
            (finished[k].task = ConfirmationTask
             /\ finished[k].state = "FAILURE")
            => finished[k].retries = 3 /\ finished[k].runs = 4)
    /\ [][ \A i \in 1..Len(queue) :
             RunConfirmation(i, FALSE)
             => /\ queue[i].eta # NoTime => now >= queue[i].eta
                /\ IF queue[i].retries < 3
                   THEN /\ finished' = finished
                        /\ Len(queue') = Len(queue)
                        /\ queue'[Len(queue')] =
                             [queue[i] EXCEPT !.retries = @ + 1,
                                              !.runs = @ + 1,
                                              !.eta = now + 300]
                   ELSE /\ Len(queue') = Len(queue) - 1
                        /\ Len(finished') = Len(finished) + 1
                        /\ finished'[Len(finished')].state = "FAILURE" ]_vars
    /\ [][ \A k \in 1..Len(finished) :
             Len(finished') >= k /\ finished'[k] = finished[k] ]_vars

C6_Witness ==
    \E k \in 1..Len(finished) :
        /\ finished[k].task = ConfirmationTask
        /\ finished[k].state = "FAILURE"
        /\ finished[k].runs = 4
        /\ now >= 3 * RetryCountdown

\* C15: a cancellation job is run once: the run takes the message off the
\* queue and publishes nothing in its place, and the job ends having
\* returned True if the mail was sent and False if rendering or sending
\* raised; no cancellation message is ever a retry.
C15_CancellationSingleAttempt ==
    /\ [](/\ \A i \in 1..Len(queue) :
               queue[i].task = CancellationTask
               => queue[i].runs = 0 /\ queue[i].retries = 0
          /\ \A k \in 1..Len(finished) :
               finished[k].task = CancellationTask
               => finished[k].runs = 1 /\ finished[k].retries = 0)
    /\ [][ \A i \in 1..Len(queue) : \A sent \in BOOLEAN :
             RunCancellation(i, sent)
             => /\ queue' = SubSeq(queue, 1, i - 1)
                             \o SubSeq(queue, i + 1, Len(queue))
                /\ Len(finished') = Len(finished) + 1
                /\ SubSeq(finished', 1, Len(finished)) = finished
                /\ finished'[Len(finished')].booking = queue[i].booking
                /\ finished'[Len(finished')].returned =
                      (IF sent THEN "True" ELSE "False") ]_vars

\* a cancellation job failed, and time has passed since without the queue
\* holding it again
C15_Witness ==
    /\ \E k \in 1..Len(finished) :
          /\ finished[k].task = CancellationTask
          /\ finished[k].returned = "False"
    /\ \A i \in 1..Len(queue) : queue[i].task # CancellationTask
    /\ Len(queue) + Len(finished) = MaxJobs
    /\ now >= RetryCountdown

----------------------------------------------------------------------------
(* Every writer of the tables side by side: handlers, worker and cleanup *)

\* a booking made on day 0 or 1 for a stay after day CleanupDays + 1
FrameRow(status, day) ==
    [listing |-> 1, guest |-> "guest", check_in |-> CleanupDays + 3,
     check_out |-> CleanupDays + 5, total_price |-> 1,
     status |-> status, payment_status |-> "pending",
     confirmation_number |-> "1A2B3C4D",
     confirmed_at |-> NoTime,
     cancelled_at |-> IF status = "cancelled" THEN day ELSE NoTime,
     paid_at |-> NoTime, updated_at |-> day]

\* Day CleanupDays + 1: one booking, pending or cancelled on day 0 or 1,
\* with the Payment its Create made or (Payment creation having raised)
\* without one; the mails of those days are long sent
InitFrame ==
    /\ bookings \in [1..1 -> {FrameRow(st, day) :
                                st \in {"pending", "cancelled"}, day \in 0..1}]
    /\ payments \in {EmptyTable, [ref \in {1} |-> NewPayment(1)]}
    /\ nextBookingId = 2
    /\ nextPaymentRef = Cardinality(DOMAIN payments) + 1
    /\ queue = <<>>
    /\ now = CleanupDays + 1
    /\ finished = <<>>
    /\ last = Outcome("init", NoUser, NoBooking, 0)
    /\ beat = BeatStarted(0)
    /\ inflight = EmptyTable

NextFrame ==
    \/ \E r \in CreateRequests, gen \in GeneratedCNs, created \in BOOLEAN :
          /\ nextBookingId <= FrameBookings
          /\ Published < FrameJobs
          /\ (r.total_price > 0 /\ created) => nextPaymentRef <= FramePayments
          /\ Create(r, gen, created)
    \/ \E actor \in Users, id \in 1..FrameBookings :
          Published < FrameJobs /\ Cancel(actor, id)
    \/ \E actor \in Users, id \in 1..FrameBookings :
          Published < FrameJobs /\ Confirm(actor, id)
    \/ \E amount \in Amounts, email \in PayerEmails,
          bookingId \in 0..(FrameBookings + 1), gw \in GatewayInitStatuses :
          nextPaymentRef <= FramePayments
          /\ StartPayment(amount, email, bookingId, gw)
    \/ \E ref \in 1..(FramePayments + 1), gw \in GatewayVerifyStatuses :
          Published < FrameJobs /\ VerifyPayment(ref, gw)
    \/ \E i \in 1..FrameJobs, sent \in BOOLEAN : RunConfirmation(i, sent)
    \/ \E i \in 1..FrameJobs, sent \in BOOLEAN : RunCancellation(i, sent)
    \/ CleanupOldBookings

SpecFrame == InitFrame /\ [][NextFrame]_vars

----------------------------------------------------------------------------
(* send_booking_reminder_email *)

ReminderTask == "send_booking_reminder_email"

\* The Booking model the task is run against. The task filters on start_date
\* and reads booking.user, while the views use check_in and guest: either
\* the model has both names ("resolves", start_date being the check-in
\* date), or the filter raises FieldError ("no_start_date"), or the filter
\* works and booking.user raises AttributeError ("no_user").
BookingSchemas == {"resolves", "no_start_date", "no_user"}

\* what happens to one booking inside the loop: the mail goes out;
\* render_to_string raises; send_mail fails, which fail_silently=True hides
ReminderOutcomes == {"sent", "render_raised", "send_failed"}

\* Booking.objects.filter(start_date=tomorrow.date(), status='confirmed')
UpcomingBookings ==
    {id \in DOMAIN bookings :
        bookings[id].check_in = now + 1 /\ bookings[id].status = "confirmed"}

\* the bookings for which the loop body reaches email_count += 1
Counted(schema, outcome) ==
    IF schema # "resolves" THEN {}
    ELSE {id \in UpcomingBookings : outcome[id] # "render_raised"}

\* the bookings whose reminder was delivered
Delivered(schema, outcome) ==
    IF schema # "resolves" THEN {}
    ELSE {id \in UpcomingBookings : outcome[id] = "sent"}

\* the mails delivered, in the order the queryset is iterated
Mails(ids) ==
    LET F[k \in 0..ReminderRows] ==
          IF k = 0 THEN <<>>
          ELSE IF k \in ids
               THEN Append(F[k - 1], [task |-> ReminderTask, booking |-> k,
                                      to |-> Email(bookings[k].guest)])
               ELSE F[k - 1]
    IN  F[ReminderRows]

\* send_booking_reminder_email run by a worker; the task returns
\* "Sent {email_count} reminder emails", or "Error: ..." when the query raises
SendBookingReminder(schema, outcome) ==
    /\ finished' = finished \o Mails(Delivered(schema, outcome))
    /\ last' = [op |-> ReminderTask, actor |-> NoUser, id |-> NoBooking,
                result |-> Cardinality(Counted(schema, outcome)),
                state |-> IF schema = "no_start_date" THEN "Error"
                          ELSE "Sent"]
    /\ UNCHANGED <<bookings, payments, nextBookingId, nextPaymentRef, queue,
                   now, beat, inflight>>

\* a Booking table as the handlers leave it, with check-ins tomorrow and the
\* day after
ReminderRow(status, check_in) ==
    [listing |-> 1, guest |-> "guest", check_in |-> check_in,
     check_out |-> check_in + 2, total_price |-> 0,
     status |-> status, payment_status |-> "pending",
     confirmation_number |-> "1A2B3C4D",
     confirmed_at |-> IF status = "confirmed" THEN 0 ELSE NoTime,
     cancelled_at |-> IF status = "cancelled" THEN 0 ELSE NoTime,
     paid_at |-> NoTime, updated_at |-> 0]

InitReminder ==
    /\ bookings \in [1..ReminderRows ->
          {ReminderRow(st, day) : st \in {"pending", "confirmed", "cancelled"},
                                  day \in 1..2}]
    /\ payments = EmptyTable
    /\ nextBookingId = ReminderRows + 1
    /\ nextPaymentRef = 1
    /\ queue = <<>>
    /\ now = 0
    /\ finished = <<>>
    /\ last = Outcome("init", NoUser, NoBooking, 0)
    /\ beat = BeatStarted(0)
    /\ inflight = EmptyTable

NextReminder ==
    \/ \E schema \in BookingSchemas,
          outcome \in [1..ReminderRows -> ReminderOutcomes] :
          Len(finished) = 0 /\ SendBookingReminder(schema, outcome)
    \/ (now < MaxReminderTicks /\ Len(finished) = 0 /\ Tick)

SpecReminder == InitReminder /\ [][NextReminder]_vars

----------------------------------------------------------------------------
(* Requests and jobs side by side, checked under SpecAsync *)

\* the tables and their key generators
Persisted == <<bookings, payments, nextBookingId, nextPaymentRef>>

\* the status each handler answers, read from the tables and the request
CreateAnswer(r) == IF SerializerValid(r) THEN 201 ELSE 400

CancelAnswer(actor, id) ==
    IF ~Visible(actor, id) THEN 404
    ELSE IF CancelForbidden(actor, bookings[id]) THEN 403
    ELSE IF CancelRefused(bookings[id]) THEN 400
    ELSE 200

ConfirmAnswer(actor, id) ==
    IF ~Visible(actor, id) THEN 404
    ELSE IF ConfirmForbidden(actor, bookings[id]) THEN 403
    ELSE 200

\* the step left the queue alone or appended one message that has not run
AtMostOneFreshMessage ==
    \/ queue' = queue
    \/ /\ Len(queue') = Len(queue) + 1
       /\ SubSeq(queue', 1, Len(queue)) = queue
       /\ queue'[Len(queue')].runs = 0
       /\ queue'[Len(queue')].retries = 0

\* C14: a job run, whatever its outcome (sent, failed and retried, failed
\* for good, or not run at all), changes no Booking and no Payment; a
\* request runs no job itself (it only publishes at most one fresh message)
\* and its answer and its effect on the tables are those the tables and the
\* request determine, whatever the queue and the finished jobs look like.
C14_JobsIsolated ==
    /\ [][ last'.op \in {ConfirmationTask, CancellationTask}
           => Persisted' = Persisted ]_vars
    /\ [][ last'.op \in {"create", "cancel", "confirm", "verify_payment"}
           => finished' = finished /\ AtMostOneFreshMessage ]_vars
    /\ [][ \A r \in CreateRequests : \A gen \in GeneratedCNs :
           \A created \in BOOLEAN :
             Create(r, gen, created)
             => /\ last'.result = CreateAnswer(r)
                /\ bookings' =
                     IF CreateAnswer(r) = 201
                     THEN Insert(bookings, nextBookingId,
                                 AssignConfirmationNumber(NewBooking(r), gen))
                     ELSE bookings
                /\ payments' =
                     IF CreateAnswer(r) = 201 /\ r.total_price > 0 /\ created
                     THEN Insert(payments, nextPaymentRef,
                                 NewPayment(nextBookingId))
                     ELSE payments ]_vars
    /\ [][ \A actor \in Users : \A id \in 1..AsyncBookings :
             Cancel(actor, id)
             => /\ last'.result = CancelAnswer(actor, id)
                /\ bookings' =
                     IF CancelAnswer(actor, id) = 200
                     THEN [bookings EXCEPT ![id] = CancelledBooking(@)]
                     ELSE bookings
                /\ payments' = payments ]_vars
    /\ [][ \A actor \in Users : \A id \in 1..AsyncBookings :
             Confirm(actor, id)
             => /\ last'.result = ConfirmAnswer(actor, id)
                /\ bookings' =
                     IF ConfirmAnswer(actor, id) = 200
                     THEN [bookings EXCEPT ![id] = ConfirmedBooking(@)]
                     ELSE bookings
                /\ payments' = payments ]_vars
    /\ [][ \A ref \in 1..(AsyncPayments + 1) :
           \A gw \in GatewayVerifyStatuses :
             VerifyPayment(ref, gw)
             => IF ref \notin DOMAIN payments
                THEN last'.result = 404 /\ Persisted' = Persisted
                ELSE /\ last'.result = 200
                     /\ payments'[ref].status =
                          (IF gw = "success" THEN "completed" ELSE "failed")
                     /\ LET id == payments[ref].booking IN
                        id \in DOMAIN bookings
                        => bookings' = [bookings EXCEPT ![id] =
                              IF gw = "success" THEN PaidBooking(@)
                              ELSE UnpaidBooking(@)] ]_vars

\* an admin's Confirm was answered 200 while the Create's confirmation mail
\* had failed and waited for its retry and a later job had succeeded
C14_Witness ==
    /\ last.op = "confirm"
    /\ last.result = 200
    /\ bookings[last.id].status = "confirmed"
    /\ \E i \in 1..Len(queue) : queue[i].retries = 1 /\ queue[i].runs = 1
    /\ \E k \in 1..Len(finished) : finished[k].state = "SUCCESS"
    /\ queue[Len(queue)].runs = 0

----------------------------------------------------------------------------
(* Properties of the Payment table, checked under SpecFrame *)

----------------------------------------------------------------------------
(* Properties of the reminder job, checked under SpecReminder *)

\* C16: one run of the reminder job delivers a reminder for every confirmed
\* booking whose check-in is tomorrow unless that booking's own rendering or
\* sending failed, and for no other booking, and returns as its count the
\* number of reminders delivered.
C16_ReminderExact ==
    [][ \A schema \in BookingSchemas :
        \A outcome \in [1..ReminderRows -> ReminderOutcomes] :
          SendBookingReminder(schema, outcome)
          => LET due == {id \in DOMAIN bookings :
                           /\ bookings[id].status = "confirmed"
                           /\ bookings[id].check_in = now + 1}
                 new == {finished'[k].booking :
                           k \in (Len(finished) + 1)..Len(finished')}
             IN  /\ new = {id \in due : outcome[id] = "sent"}
                 /\ last'.result = Cardinality(new)
                 /\ last'.result = Len(finished') - Len(finished) ]_vars

----------------------------------------------------------------------------
(* Properties of the schedule, checked under SpecBeat *)

\* the tasks the schedule names for hour h of the day
TasksAt(h) ==
    (IF h \in {0, 12} THEN {"crm.tasks.check_and_notify_low_stock"} ELSE {})
    \cup (IF h = 8 THEN {"listings.tasks.send_daily_booking_summary"} ELSE {})
    \cup (IF h = 0 THEN {"listings.tasks.cleanup_old_bookings"} ELSE {})

\* the messages the step added to the queue
NewMessages ==
    IF Len(queue') > Len(queue)
    THEN {queue'[k] : k \in (Len(queue) + 1)..Len(queue')}
    ELSE {}

\* the step is the passing of an hour
HourPassed == now' * 24 + beat'.hour = now * 24 + beat.hour + 1

\* every new message is of a different task, and the low-stock check
\* carries the threshold 10
OncePerTask ==
    /\ \A m1, m2 \in NewMessages : m1.task = m2.task => m1 = m2
    /\ Cardinality(NewMessages) = Len(queue') - Len(queue)
    /\ \A m \in NewMessages :
          m.args = (IF m.task = "crm.tasks.check_and_notify_low_stock"
                    THEN <<10>> ELSE <<>>)

----------------------------------------------------------------------------
(* A payment that failed and is started again, among jobs and ticks *)

\* the booking of a Create with a price, and the Payment made with it
RetryRow ==
    [listing |-> 1, guest |-> "guest", check_in |-> 5, check_out |-> 7,
     total_price |-> 1,
     status |-> "pending", payment_status |-> "pending",
     confirmation_number |-> "1A2B3C4D",
     confirmed_at |-> NoTime, cancelled_at |-> NoTime,
     paid_at |-> NoTime, updated_at |-> RetryStart \div HoursPerDay]

\* an hour before midnight, the confirmation mail of the Create long sent
InitRetry ==
    /\ bookings = Insert(EmptyTable, 1, RetryRow)
    /\ payments = Insert(EmptyTable, 1, NewPayment(1))
    /\ nextBookingId = 2
    /\ nextPaymentRef = 2
    /\ queue = <<>>
    /\ now = RetryStart \div HoursPerDay
    /\ finished = <<>>
    /\ last = Outcome("init", NoUser, NoBooking, 0)
    /\ beat = BeatStarted(RetryStart)
    /\ inflight = EmptyTable

NextRetry ==
    \/ \E amount \in Amounts, email \in PayerEmails,
          bookingId \in 0..1, gw \in GatewayInitStatuses :
          /\ nextPaymentRef <= RetryPayments
          /\ StartPayment(amount, email, bookingId, gw)
    \/ \E ref \in 1..RetryPayments, gw \in GatewayVerifyStatuses :
          /\ Len(queue) < RetryQueue
          /\ Len(finished) < RetryJobs
          /\ VerifyPayment(ref, gw)
    \/ \E i \in 1..RetryQueue, sent \in BOOLEAN : RunConfirmation(i, sent)
    \/ /\ Clock < RetryStart + RetryTicks
       /\ Len(queue) + Cardinality(DueNext) <= RetryQueue
       /\ BeatTick
    \/ \E i \in 1..RetryQueue : RunCleanup(i)
    \/ \E i \in 1..RetryQueue : RunReport(i)

SpecRetry == InitRetry /\ [][NextRetry]_vars

\* booking 1 is as a failed verification leaves it
PaymentFailed ==
    1 \in DOMAIN bookings /\ bookings[1].payment_status = "failed"

\* reference r belongs to a payment started for booking 1 after an earlier
\* one of the booking had failed
StartedAgain(r) ==
    /\ r \in DOMAIN payments
    /\ payments[r].booking = 1
    /\ \E r0 \in DOMAIN payments :
          r0 < r /\ payments[r0].booking = 1 /\ payments[r0].status = "failed"

\* C19: while booking 1 has payment_status failed, a step that is not a
\* start_payment or verify_payment request (a job, a tick of beat) leaves
\* the payments, the reference counter and the booking's status and
\* payment_status as they are; a Payment row is only ever added by a
\* start_payment answered 200; such a start_payment for the booking adds a
\* pending Payment linked to it under a new reference; and a verify_payment
\* of a reference started again, with gateway status success, leaves the
\* booking confirmed with payment_status completed.
C19_RetryOnlyByStartPayment ==
    [][ /\ (PaymentFailed
             /\ last'.op \notin {"start_payment", "verify_payment"}) =>
               /\ payments' = payments
               /\ nextPaymentRef' = nextPaymentRef
               /\ 1 \in DOMAIN bookings'
               /\ bookings'[1].payment_status = "failed"
               /\ bookings'[1].status = bookings[1].status
        /\ DOMAIN payments' # DOMAIN payments =>
               last'.op = "start_payment" /\ last'.result = 200
        /\ (PaymentFailed /\ last' = Outcome("start_payment", NoUser, 1, 200)) =>
               /\ DOMAIN payments' = DOMAIN payments \cup {nextPaymentRef}
               /\ nextPaymentRef \notin DOMAIN payments
               /\ payments'[nextPaymentRef].booking = 1
               /\ payments'[nextPaymentRef].status = "pending"
               /\ \A r \in DOMAIN payments : payments'[r] = payments[r]
               /\ bookings'[1].payment_status = "pending"
        /\ \A r \in 1..RetryPayments :
               (StartedAgain(r) /\ VerifyPayment(r, "success")) =>
                  /\ bookings'[1].status = "confirmed"
                  /\ bookings'[1].payment_status = "completed"
                  /\ payments'[r].status = "completed" ]_vars

\* the first payment failed, a second one was started for the booking and
\* its verification succeeded
C19_Witness ==
    /\ last = Outcome("verify_payment", NoUser, 2, 200)
    /\ DOMAIN payments = {1, 2}
    /\ payments[1].status = "failed"
    /\ payments[2].booking = 1
    /\ payments[2].status = "completed"
    /\ bookings[1].status = "confirmed"
    /\ bookings[1].payment_status = "completed"

----------------------------------------------------------------------------
(* Properties of a cancelled booking's end, checked under SpecLive *)

\* booking 1 is cancelled and was last saved on day d
CancelledSince(d) ==
    /\ 1 \in DOMAIN bookings
    /\ bookings[1].status = "cancelled"
    /\ bookings[1].updated_at = d

\* C18: a booking that is cancelled and last saved on day d is in the end
\* deleted, unless it is saved again before; and a booking leaves the table
\* only by a run of cleanup_old_bookings, as a cancelled booking last
\* saved more than 30 days before the run.
C18_CancelledEventuallyDeleted ==
    /\ \A d \in 0..LiveRequestDays :
          CancelledSince(d) ~> (1 \notin DOMAIN bookings \/ ~CancelledSince(d))
    /\ [][ (1 \in DOMAIN bookings /\ 1 \notin DOMAIN bookings') =>
             /\ last'.op = "cleanup_old_bookings"
             /\ bookings[1].status = "cancelled"
             /\ now - bookings[1].updated_at > 30
             /\ beat.hour = 0 ]_vars

\* the booking was cancelled, its mail was sent, and the cleanup of a later
\* midnight deleted it
C18_Witness ==
    /\ 1 \notin DOMAIN bookings
    /\ last.op = "cleanup_old_bookings"
    /\ last.result = 1
    /\ Len(finished) = 1
    /\ finished[1].task = CancellationTask

----------------------------------------------------------------------------
(* Properties of the cleanup job, checked under SpecCleanup *)

\* C7: one run of cleanup_old_bookings deletes exactly the cancelled
\* bookings whose updated_at is strictly earlier than now - 30 days, keeps
\* every other row as it was, and returns the number of rows deleted.
C7_CleanupExact ==
    [][ last'.op = "cleanup_old_bookings"
        => /\ DOMAIN bookings' =
                {id \in DOMAIN bookings :
                    ~ ( /\ bookings[id].status = "cancelled"
                        /\ bookings[id].updated_at < now - 30 )}
           /\ \A id \in DOMAIN bookings' : bookings'[id] = bookings[id]
           /\ last'.result =
                Cardinality(DOMAIN bookings) - Cardinality(DOMAIN bookings')
      ]_vars

\* a run deleted one row and kept a cancelled row saved exactly 30 days ago
\* and a confirmed row older than that
C7_Witness ==
    /\ last.op = "cleanup_old_bookings"
    /\ last.result = 1
    /\ \E id \in DOMAIN bookings :
          /\ bookings[id].status = "cancelled"
          /\ bookings[id].updated_at = now - CleanupDays
    /\ \E id \in DOMAIN bookings :
          /\ bookings[id].status = "confirmed"
          /\ bookings[id].updated_at < now - CleanupDays

----------------------------------------------------------------------------
(* Properties of a booking's status, checked under Spec *)

\* C21: once a booking is cancelled, no confirm, verify_payment or cancel
\* request changes its status: it is still in the table, cancelled, after
\* the request.
C21_CancelledIsFinal ==
    [][ last'.op \in {"confirm", "verify_payment", "cancel"} =>
          \A id \in DOMAIN bookings :
              bookings[id].status = "cancelled" =>
                 /\ id \in DOMAIN bookings'
                 /\ bookings'[id].status = "cancelled" ]_vars

----------------------------------------------------------------------------
(* Requests handled concurrently: every handler is load, modify, save *)

\* requests that have written the Booking table so far
Writes == Cardinality({s \in DOMAIN inflight : inflight[s].order > 0})

\* A request in flight. row is what get_object() loaded (for a create, the
\* validated data), wrote the row it saved, pc its position, code its
\* response once it has one; seen is the number of writes done when it read
\* the table, order its own place among the writes (0: none yet).
Request(op, actor, id, row, pc, code) ==
    [op |-> op, actor |-> actor, id |-> id, row |-> row, wrote |-> row,
     pc |-> pc, code |-> code, seen |-> Writes, order |-> 0]

\* the request takes the next free slot
Begin(req) == inflight' = Insert(inflight, Cardinality(DOMAIN inflight) + 1, req)

SavedOverKeepingStamps(current, mine) ==
    [mine EXCEPT
        !.cancelled_at = IF current.cancelled_at # NoTime
                         THEN current.cancelled_at ELSE @,
        !.confirmed_at = IF current.confirmed_at # NoTime
                         THEN current.confirmed_at ELSE @]

\* booking.save() with no update_fields: every column of the row is set from
\* the instance in memory, whatever the row holds by now
SavedOver(current, mine) == mine

\* get_object() and the checks of cancel on the instance it returned
CancelLoad(actor, id) ==
    /\ IF ~Visible(actor, id)
       THEN /\ Begin(Request("cancel", actor, id, NoBooking, "done", 404))
            /\ last' = Outcome("cancel", actor, id, 404)
       ELSE IF CancelForbidden(actor, bookings[id])
       THEN /\ Begin(Request("cancel", actor, id, bookings[id], "done", 403))
            /\ last' = Outcome("cancel", actor, id, 403)
       ELSE IF CancelRefused(bookings[id])
       THEN /\ Begin(Request("cancel", actor, id, bookings[id], "done", 400))
            /\ last' = Outcome("cancel", actor, id, 400)
       ELSE /\ Begin(Request("cancel", actor, id, bookings[id], "loaded", 0))
            /\ last' = Outcome("load", actor, id, 0)
    /\ UNCHANGED <<bookings, payments, nextBookingId, nextPaymentRef, queue,
                   now, finished, beat>>

\* get_object() and the check of confirm on the instance it returned
ConfirmLoad(actor, id) ==
    /\ IF ~Visible(actor, id)
       THEN /\ Begin(Request("confirm", actor, id, NoBooking, "done", 404))
            /\ last' = Outcome("confirm", actor, id, 404)
       ELSE IF ConfirmForbidden(actor, bookings[id])
       THEN /\ Begin(Request("confirm", actor, id, bookings[id], "done", 403))
            /\ last' = Outcome("confirm", actor, id, 403)
       ELSE /\ Begin(Request("confirm", actor, id, bookings[id], "loaded", 0))
            /\ last' = Outcome("load", actor, id, 0)
    /\ UNCHANGED <<bookings, payments, nextBookingId, nextPaymentRef, queue,
                   now, finished, beat>>

\* booking.status = ...; booking.<...>_at = timezone.now(); booking.save()
RequestSave(s) ==
    /\ s \in DOMAIN inflight
    /\ inflight[s].op \in {"cancel", "confirm"}
    /\ inflight[s].pc = "loaded"
    /\ LET req == inflight[s]
           mine == IF req.op = "cancel" THEN CancelledBooking(req.row)
                   ELSE ConfirmedBooking(req.row)
           row == SavedOver(bookings[req.id], mine)
       IN  /\ bookings' = [bookings EXCEPT ![req.id] = row]
           /\ inflight' = [inflight EXCEPT ![s] =
                  [req EXCEPT !.pc = "saved", !.wrote = row,
                              !.order = Writes + 1]]
           /\ last' = Outcome("save", req.actor, req.id, 0)
    /\ UNCHANGED <<payments, nextBookingId, nextPaymentRef, queue, now,
                   finished, beat>>

\* the .delay() call that follows the save, and the response
RequestDelay(s) ==
    /\ s \in DOMAIN inflight
    /\ inflight[s].op \in {"cancel", "confirm"}
    /\ inflight[s].pc = "saved"
    /\ LET req == inflight[s] IN
       /\ queue' = Append(queue,
             IF req.op = "cancel"
             THEN Job(CancellationTask, req.id, req.wrote.confirmation_number,
                      Email(req.actor))
             ELSE Job(ConfirmationTask, req.id, req.wrote.confirmation_number,
                      Email(req.wrote.guest)))
       /\ inflight' = [inflight EXCEPT ![s] =
              [req EXCEPT !.pc = "done", !.code = 200]]
       /\ last' = Outcome(req.op, req.actor, req.id, 200)
    /\ UNCHANGED <<bookings, payments, nextBookingId, nextPaymentRef, now,
                   finished, beat>>

\* serializer.is_valid() of a create, against the table as it is now
CreateValidate(r) ==
    /\ IF ~SerializerValid(r)
       THEN /\ Begin(Request("create", r.actor, NoBooking, r, "done", 400))
            /\ last' = Outcome("create", r.actor, NoBooking, 400)
       ELSE /\ Begin(Request("create", r.actor, NoBooking, r, "loaded", 0))
            /\ last' = Outcome("load", r.actor, NoBooking, 0)
    /\ UNCHANGED <<bookings, payments, nextBookingId, nextPaymentRef, queue,
                   now, finished, beat>>

\* perform_create of a create whose data was found valid
CreatePerform(s, gen, created) ==
    /\ s \in DOMAIN inflight
    /\ inflight[s].op = "create"
    /\ inflight[s].pc = "loaded"
    /\ PerformCreate(inflight[s].row, gen, created)
    /\ inflight' = [inflight EXCEPT ![s] =
           [@ EXCEPT !.pc = "done", !.code = 201, !.id = nextBookingId,
                     !.order = Writes + 1]]
    /\ UNCHANGED beat

NextRace ==
    \/ \E r \in CreateRequests :
          /\ Cardinality(DOMAIN inflight) < RaceRequests
          /\ CreateValidate(r)
    \/ \E s \in DOMAIN inflight, gen \in GeneratedCNs, created \in BOOLEAN :
          /\ nextBookingId <= RaceBookings
          /\ CreatePerform(s, gen, created)
    \/ \E actor \in Users, id \in 1..RaceBookings :
          /\ Cardinality(DOMAIN inflight) < RaceRequests
          /\ CancelLoad(actor, id)
    \/ \E actor \in Users, id \in 1..RaceBookings :
          /\ Cardinality(DOMAIN inflight) < RaceRequests
          /\ ConfirmLoad(actor, id)
    \/ \E s \in DOMAIN inflight : RequestSave(s)
    \/ \E s \in DOMAIN inflight : RequestDelay(s)
    \/ (now < RaceDays /\ Tick)

SpecRace == Init /\ [][NextRace]_vars

----------------------------------------------------------------------------
(* Properties of concurrent requests, checked under SpecRace *)

\* request a read the table before request b wrote it (or b never wrote)
ReadBeforeWrite(a, b) ==
    inflight[b].order = 0 \/ inflight[a].seen < inflight[b].order

\* c is a cancel and f a confirm of the same booking, both answered, each by
\* an actor the handler lets through and on a row that could be cancelled,
\* and each loaded the row before the other saved it
CancelConfirmRace(c, f) ==
    /\ inflight[c].op = "cancel" /\ inflight[f].op = "confirm"
    /\ inflight[c].id = inflight[f].id
    /\ inflight[c].pc = "done" /\ inflight[f].pc = "done"
    /\ inflight[c].code # 404 /\ inflight[f].code # 404
    /\ inflight[c].actor = inflight[c].row.guest \/ IsStaff(inflight[c].actor)
    /\ IsStaff(inflight[f].actor)
    /\ inflight[c].row.status \in {"pending", "confirmed"}
    /\ now < inflight[c].row.check_in
    /\ ReadBeforeWrite(c, f) /\ ReadBeforeWrite(f, c)

\* the jobs of a task waiting in the queue for booking id
QueuedFor(task, id) ==
    {i \in 1..Len(queue) : queue[i].task = task /\ queue[i].booking = id}

\* no request wrote the table after request s did
WroteLast(s) ==
    \A t \in DOMAIN inflight : inflight[t].order <= inflight[s].order

\* C22: when a cancel and a confirm of one booking have raced, both were
\* answered 200, the queue holds the cancellation mail of the one and the
\* confirmation mail of the other (next to the mail of the create), and if
\* nothing was written since, the row is the one the later of the two saved:
\* its status is the later one's, and the timestamp the earlier one had set
\* is gone, replaced by what the later one had loaded.
C22_LastWriteWins ==
    \A c, f \in DOMAIN inflight :
        CancelConfirmRace(c, f) =>
            LET id == inflight[c].id
                later == IF inflight[c].order > inflight[f].order THEN c ELSE f
            IN  /\ inflight[c].code = 200 /\ inflight[f].code = 200
                /\ Cardinality(QueuedFor(CancellationTask, id)) >= 1
                /\ Cardinality(QueuedFor(ConfirmationTask, id)) >= 2
                /\ WroteLast(later) =>
                      /\ bookings[id] = inflight[later].wrote
                      /\ bookings[id].status =
                            (IF later = c THEN "cancelled" ELSE "confirmed")
                      /\ later = c =>
                            bookings[id].confirmed_at =
                               inflight[c].row.confirmed_at
                      /\ later = f =>
                            bookings[id].cancelled_at =
                               inflight[f].row.cancelled_at

\* a pending booking's cancel and confirm both loaded it; the cancel saved
\* first, the confirm last: the row is confirmed and was never cancelled,
\* though the cancel was answered 200 and its mail is in the queue
C22_Witness ==
    \E c, f \in DOMAIN inflight :
        /\ CancelConfirmRace(c, f)
        /\ inflight[c].row.status = "pending"
        /\ inflight[f].row.status = "pending"
        /\ 0 < inflight[c].order /\ inflight[c].order < inflight[f].order
        /\ inflight[c].wrote.cancelled_at # NoTime
        /\ bookings[inflight[c].id].status = "confirmed"
        /\ bookings[inflight[c].id].cancelled_at = NoTime
        /\ QueuedFor(CancellationTask, inflight[c].id) # {}

\* C23: a create whose data was found valid persists its booking, with the
\* listing and the window it asked for, whatever the table holds by the time
\* it saves; two such creates leave two rows.
C23_ValidatedCreatePersists ==
    \A s, t \in DOMAIN inflight :
        ( /\ inflight[s].op = "create"
          /\ inflight[s].pc = "done"
          /\ inflight[s].code = 201 ) =>
            /\ inflight[s].id \in DOMAIN bookings
            /\ bookings[inflight[s].id].listing = inflight[s].row.listing
            /\ bookings[inflight[s].id].check_in = inflight[s].row.check_in
            /\ bookings[inflight[s].id].check_out = inflight[s].row.check_out
            /\ bookings[inflight[s].id].guest = inflight[s].actor
            /\ ( /\ t # s
                 /\ inflight[t].op = "create"
                 /\ inflight[t].code = 201 ) => inflight[t].id # inflight[s].id

\* two creates for listing 1, nights 1-3 and 2-4, were both validated before
\* either saved; both were answered 201 and both rows are in the table
C23_Witness ==
    \E s, t \in DOMAIN inflight :
        /\ s # t
        /\ inflight[s].op = "create" /\ inflight[t].op = "create"
        /\ inflight[s].code = 201 /\ inflight[t].code = 201
        /\ ReadBeforeWrite(s, t) /\ ReadBeforeWrite(t, s)
        /\ LET a == bookings[inflight[s].id]
               b == bookings[inflight[t].id]
           IN  /\ a.listing = b.listing
               /\ a.check_in < b.check_out
               /\ b.check_in < a.check_out

----------------------------------------------------------------------------
(* Properties of the order of jobs, checked under SpecAsync *)

\* C24: a worker can run any message of the queue that is due, wherever it
\* stands in the queue, so a message published later can be run before one
\* published earlier; and every request can be handled whatever the queue
\* holds: no handler waits for a job.
C24_NoJobOrder ==
    /\ \A i \in 1..Len(queue) :
          /\ queue[i].task = CancellationTask =>
                ENABLED RunCancellation(i, TRUE)
          /\ (queue[i].task = ConfirmationTask /\ Due(queue[i])) =>
                ENABLED RunConfirmation(i, TRUE)
    /\ \A actor \in Users, id \in 1..AsyncBookings :
          /\ ENABLED Cancel(actor, id)
          /\ ENABLED Confirm(actor, id)
    /\ \A r \in CreateRequests : ENABLED Create(r, "1A2B3C4D", TRUE)
    /\ \A ref \in 1..AsyncPayments : ENABLED VerifyPayment(ref, "success")

\* booking 1 was confirmed and then cancelled; the cancellation mail,
\* published last, was the first job to be run, the confirmation mails
\* after it
C24_Witness ==
    /\ 1 \in DOMAIN bookings
    /\ bookings[1].status = "cancelled"
    /\ bookings[1].confirmed_at # NoTime
    /\ Len(finished) = 3
    /\ finished[1].task = CancellationTask
    /\ finished[2].task = ConfirmationTask
    /\ finished[3].task = ConfirmationTask

----------------------------------------------------------------------------
(* ListingViewSet: the availability filter of the list and search endpoints *)

\* Listing rows: 1 and 2 are active, 3 is not
Listings == {1, 2, 3}
ListingStatus(l) == IF l = 3 THEN "inactive" ELSE "active"

\* a query parameter that was not given
NoDate == -1

UnavailableClosedWindow(check_in, check_out) ==
    {bookings[id].listing : id \in
        {k \in DOMAIN bookings :
            /\ bookings[k].check_in <= check_out
            /\ bookings[k].check_out >= check_in
            /\ bookings[k].status \in {"confirmed", "active"}}}

\* Booking.objects.filter(Q(check_in__lt=check_out) & Q(check_out__gt=check_in),
\*     status__in=['confirmed', 'active']).values_list('listing_id', flat=True)
Unavailable(check_in, check_out) ==
    {bookings[id].listing : id \in
        {k \in DOMAIN bookings :
            /\ bookings[k].check_in < check_out
            /\ bookings[k].check_out > check_in
            /\ bookings[k].status \in {"confirmed", "active"}}}

\* the queryset of both endpoints: Listing.objects.filter(status='active'),
\* with .exclude(id__in=unavailable_listings) if both dates were given
AvailableListings(check_in, check_out) ==
    LET active == {l \in Listings : ListingStatus(l) = "active"} IN
    IF check_in # NoDate /\ check_out # NoDate
    THEN active \ Unavailable(check_in, check_out)
    ELSE active

Listed(op, check_in, check_out) ==
    [op |-> op, actor |-> NoUser, id |-> NoBooking,
     result |-> AvailableListings(check_in, check_out),
     check_in |-> check_in, check_out |-> check_out]

\* GET /listings/?check_in=&check_out=
ListListings(check_in, check_out) ==
    /\ last' = Listed("list", check_in, check_out)
    /\ UNCHANGED <<bookings, payments, nextBookingId, nextPaymentRef, queue,
                   now, finished, beat, inflight>>

\* POST /listings/search/ with no criterion but the dates
SearchListings(check_in, check_out) ==
    /\ last' = Listed("search", check_in, check_out)
    /\ UNCHANGED <<bookings, payments, nextBookingId, nextPaymentRef, queue,
                   now, finished, beat, inflight>>

\* a booking of a listing in one of the statuses the filter tells apart
\* ('active' is written by no handler here, but the filter names it);
\* the bookings of listing 1 are for the nights from day 1, those of
\* listing 2 for the nights from day 2
SearchRow(listing, status, check_in) ==
    [listing |-> listing, guest |-> "guest", check_in |-> check_in,
     check_out |-> check_in + 2, total_price |-> 0,
     status |-> status, payment_status |-> "pending",
     confirmation_number |-> "1A2B3C4D",
     confirmed_at |-> IF status \in {"confirmed", "active"} THEN 0 ELSE NoTime,
     cancelled_at |-> IF status = "cancelled" THEN 0 ELSE NoTime,
     paid_at |-> NoTime, updated_at |-> 0]

InitSearch ==
    /\ bookings \in [1..SearchRows ->
          {SearchRow(l, st, l) :
              l \in {1, 2},
              st \in {"pending", "confirmed", "active", "cancelled"}}]
    /\ payments = EmptyTable
    /\ nextBookingId = SearchRows + 1
    /\ nextPaymentRef = 1
    /\ queue = <<>>
    /\ now = 0
    /\ finished = <<>>
    /\ last = Outcome("init", NoUser, NoBooking, 0)
    /\ beat = BeatStarted(0)
    /\ inflight = EmptyTable

NextSearch ==
    \/ \E check_in, check_out \in {NoDate} \cup 0..SearchDays :
          ListListings(check_in, check_out)
    \/ \E check_in, check_out \in {NoDate} \cup 0..SearchDays :
          SearchListings(check_in, check_out)

SpecSearch == InitSearch /\ [][NextSearch]_vars

\* C25: a list or search request with both dates answers with the active
\* listings that have no confirmed or active booking b with
\* b.check_in < check_out and b.check_out > check_in: a booking ending on
\* the requested check_in day or starting on the requested check_out day,
\* and a pending or cancelled booking, excludes nothing.
C25_AvailabilityFilter ==
    [][ ( /\ last'.op \in {"list", "search"}
          /\ last'.check_in # -1
          /\ last'.check_out # -1 ) =>
        \A l \in {1, 2, 3} :
            l \in last'.result <=>
               /\ l # 3
               /\ ~ \E id \in DOMAIN bookings :
                      /\ bookings[id].listing = l
                      /\ bookings[id].status \in {"confirmed", "active"}
                      /\ bookings[id].check_in < last'.check_out
                      /\ bookings[id].check_out > last'.check_in ]_vars

\* a search for the nights from day 3: listing 1 has a confirmed booking
\* that ends on day 3 and is listed; listing 2 has an active booking over
\* day 3 and is not
C25_Witness ==
    /\ last.op = "search"
    /\ last.check_in = 3 /\ last.check_out = 5
    /\ last.result = {1}
    /\ \E id \in DOMAIN bookings :
          /\ bookings[id].listing = 1
          /\ bookings[id].status = "confirmed"
          /\ bookings[id].check_out = 3
    /\ \E id \in DOMAIN bookings :
          /\ bookings[id].listing = 2
          /\ bookings[id].status = "active"
          /\ bookings[id].check_in = 2

----------------------------------------------------------------------------
(* Properties of a completed payment, checked under Spec *)

\* C26: a verify_payment of a reference whose Payment is completed leaves
\* the Payment's status other than failed, and leaves the payment_status of
\* the booking linked to it completed.
C26_CompletedIsFinal ==
    [][ \A ref \in DOMAIN payments :
          ( /\ payments[ref].status = "completed"
            /\ last'.op = "verify_payment"
            /\ last'.id = ref ) =>
              /\ payments'[ref].status # "failed"
              /\ \A id \in DOMAIN bookings :
                    ( /\ payments[ref].booking = id
                      /\ bookings[id].payment_status = "completed" ) =>
                        bookings'[id].payment_status = "completed" ]_vars

----------------------------------------------------------------------------
(* Properties of the two payment statuses, checked under SpecFrame *)

\* C27: every booking with payment_status completed has a Payment linked to
\* it whose status is completed.
C27_CompletedBookingHasCompletedPayment ==
    \A id \in DOMAIN bookings :
        bookings[id].payment_status = "completed" =>
            \E ref \in DOMAIN payments :
                /\ payments[ref].booking = id
                /\ payments[ref].status = "completed"

\* a booking with two payments: the first failed, the second was verified
\* with success and left the booking completed
C27_Witness ==
    /\ last.op = "verify_payment"
    /\ \E id \in DOMAIN bookings, failed, paid \in DOMAIN payments :
          /\ bookings[id].payment_status = "completed"
          /\ payments[failed].booking = id
          /\ payments[failed].status = "failed"
          /\ payments[paid].booking = id
          /\ payments[paid].status = "completed"

----------------------------------------------------------------------------
(* Properties of what cancel leaves alone, checked under Spec *)

\* C28: a cancel answered 200 changes the booking's status and cancelled_at
\* (and the updated_at that every save sets) and nothing else: its
\* payment_status, paid_at, confirmation_number and every other column are
\* as before, and so is every row of the Payment table.
C28_CancelFrame ==
    [][ (last'.op = "cancel" /\ last'.result = 200) =>
          LET id == last'.id IN
          /\ bookings'[id].payment_status = bookings[id].payment_status
          /\ bookings'[id].paid_at = bookings[id].paid_at
          /\ bookings'[id].confirmation_number =
                bookings[id].confirmation_number
          /\ bookings'[id] =
                [bookings[id] EXCEPT !.status = "cancelled",
                                     !.cancelled_at = now,
                                     !.updated_at = now]
          /\ payments' = payments ]_vars

\* a booking that was paid, with its completed Payment, has been cancelled
C28_Witness ==
    /\ last.op = "cancel" /\ last.result = 200
    /\ bookings[last.id].status = "cancelled"
    /\ bookings[last.id].payment_status = "completed"
    /\ bookings[last.id].paid_at # NoTime
    /\ \E ref \in DOMAIN payments :
          /\ payments[ref].booking = last.id
          /\ payments[ref].status = "completed"

====
